---- MODULE Spec2Model ----
(***************************************************************************)
(* Call-session orchestrator of the media-stream WebSocket server          *)
(* (src/src/server/websocket.ts): one accepted connection with its idle    *)
(* timer, protocol frames, the utterance debouncer, processConversation    *)
(* with its mark-gated tool loop, sendAudioToTwilio and cleanup.           *)
(*                                                                         *)
(* Every action is one turn of the Node.js event loop: a handler or timer  *)
(* callback together with the promise continuations it triggers, up to     *)
(* the next await of a real backend call.                                  *)
(***************************************************************************)
EXTENDS Integers, Sequences, FiniteSets, Bags, TLC

(* ---------------------------- bounds ---------------------------------- *)
\* final fragments accepted by onTranscript in one behaviour
MaxFragments == 2
\* tool calls in one AI reply
MaxTools == 2
\* start frames handled on the connection
MaxStarts == 1
\* the clock advances by single ticks up to this instant; later instants
\* are reached only by waiting for a pending timer
MaxTime == 2000
\* media frames forwarded to one speech-recognition connection
MaxMedia == 1
\* whole chunks in the buffers of the byte-level send specification
MaxChunks == 2

(* ----------------------- program constants ---------------------------- *)
IDLE_TIMEOUT_MS == 2 * 60 * 1000
QUIET_WINDOW_MS == 1000
GREETING_DELAY_MS == 1000
MARK_TIMEOUT_MS == 10000
CHUNK_SIZE == 4000
\* granularity of the modelled clock (Date.now() is read in milliseconds)
TickMs == 500

NULL == "null"
\* null for the values the model holds as numbers: timer handles (the instant
\* the timer is due), mark names (the timestamp after "audio_") and indices
NONE == -1
\* callSession before the first start frame
NoSession ==
    [callSid |-> NULL, status |-> NULL, endTime |-> FALSE,
     transcripts |-> <<>>, aiResponses |-> 0]
connectionId == "conn1"
CallSids == {"CA1"}
StreamSids == {"MZ1"}
ToolNames == {"hang_up_call", "transfer_call", "lookup_weather"}

(* ------------------------------ text ---------------------------------- *)
\* transcript texts are sequences of characters
FragmentTexts == {<<"a">>, <<"b">>, <<" ">>, <<>>}

RECURSIVE TrimStart(_)
TrimStart(s) ==
    IF s # <<>> /\ Head(s) = " " THEN TrimStart(Tail(s)) ELSE s

RECURSIVE TrimEnd(_)
TrimEnd(s) ==
    IF s # <<>> /\ s[Len(s)] = " " THEN TrimEnd(SubSeq(s, 1, Len(s) - 1)) ELSE s

\* String.prototype.trim
Trim(s) == TrimEnd(TrimStart(s))

(* ----------------------------- base64 --------------------------------- *)
\* a base64 string is a sequence of sextet values, with PAD for '='
PAD == 64

CeilDiv(a, b) == (a + b - 1) \div b

ByteAt(bytes, k) == IF k <= Len(bytes) THEN bytes[k] ELSE 0

\* Buffer.prototype.toString('base64')
Base64Encode(bytes) ==
    [j \in 1..(4 * CeilDiv(Len(bytes), 3)) |->
        LET g  == (j - 1) \div 4
            k  == (j - 1) % 4
            b0 == ByteAt(bytes, 3 * g + 1)
            b1 == ByteAt(bytes, 3 * g + 2)
            b2 == ByteAt(bytes, 3 * g + 3)
        IN  CASE k = 0 -> b0 \div 4
              [] k = 1 -> (b0 % 4) * 16 + (b1 \div 16)
              [] k = 2 -> IF 3 * g + 2 > Len(bytes) THEN PAD
                          ELSE (b1 % 16) * 4 + (b2 \div 64)
              [] k = 3 -> IF 3 * g + 3 > Len(bytes) THEN PAD
                          ELSE b2 % 64]

\* number of sextets before the first '='
DataLen(chars) ==
    IF \E j \in 1..Len(chars) : chars[j] = PAD
    THEN (CHOOSE j \in 1..Len(chars) :
            chars[j] = PAD /\ \A h \in 1..(j - 1) : chars[h] # PAD) - 1
    ELSE Len(chars)

\* Buffer.from(payload, 'base64'): decoding stops at the first '='
Base64Decode(chars) ==
    [i \in 1..((DataLen(chars) * 6) \div 8) |->
        LET bit == 8 * (i - 1)
            s   == bit \div 6 + 1
            r   == bit % 6
        IN  CASE r = 0 -> chars[s] * 4 + (chars[s + 1] \div 16)
              [] r = 2 -> (chars[s] % 16) * 16 + (chars[s + 1] \div 4)
              [] r = 4 -> (chars[s] % 4) * 64 + chars[s + 1]]

(* ------------------------- outbound frames ---------------------------- *)
\* a slice that runs one byte into the next chunk
SliceOneByteLonger(buf, i) ==
    SubSeq(buf, i + 1,
           IF i + CHUNK_SIZE + 1 < Len(buf) THEN i + CHUNK_SIZE + 1 ELSE Len(buf))

\* Buffer.prototype.slice(i, i + CHUNK_SIZE), i counted from 0
Slice(buf, i) ==
    SubSeq(buf, i + 1, IF i + CHUNK_SIZE < Len(buf) THEN i + CHUNK_SIZE ELSE Len(buf))

MediaFrame(sid, chunk) ==
    [event |-> "media", streamSid |-> sid, payload |-> Base64Encode(chunk)]

MarkFrame(sid, name) ==
    [event |-> "mark", streamSid |-> sid, name |-> name]

\* the frames the loop and the trailing mark of sendAudioToTwilio hand to
\* connection.sendUTF, in call order
SendFrames(buf, sid, name) ==
    [k \in 1..CeilDiv(Len(buf), CHUNK_SIZE) |->
        MediaFrame(sid, Slice(buf, (k - 1) * CHUNK_SIZE))]
    \o <<MarkFrame(sid, name)>>


(* ------------------------------ state --------------------------------- *)
VARIABLES
    now,                 \* Date.now()
    connState,           \* connection.state
    closeCalls,          \* calls of connection.close()
    activeConnections,   \* keys of state.activeConnections
    activeCalls,         \* keys of state.activeCalls
    callSession,         \* NoSession or the CallSession of the last start
    streamSid,
    connectionTimeout,   \* NONE or the instant the idle timer is due
    deepgramConnection,  \* NONE or an index of dgConns
    dgConns,             \* the speech-recognition connections created so far
    conversationBuffer,
    lastSpeechTime,
    debounceTimers,      \* bag of the instants the quiet-window timers are due
    greetings,           \* the greeting timers and their callbacks
    orch,                \* the processConversation invocations, in entry order
    outFrames,           \* frames handed to connection.sendUTF without a throw
    histArrays,          \* the message arrays AIService has allocated
    conversationHistory, \* AIService.conversationHistory: callSid -> array
    starts,              \* start frames handled
    fragments,           \* final fragments onTranscript has buffered
    cleanups,            \* runs of cleanup since the last start frame (up to 2)
    uncaught,            \* an exception or a rejection has left a handler
    connections,         \* the connections the server accepted (SpecShutdown)
    shutdowns            \* runs of the SIGTERM/SIGINT handler

vars == <<now, connState, closeCalls, activeConnections, activeCalls,
          callSession, streamSid, connectionTimeout, deepgramConnection,
          dgConns, conversationBuffer, lastSpeechTime, debounceTimers,
          greetings, orch, outFrames, histArrays, conversationHistory,
          starts, fragments, cleanups, uncaught, connections, shutdowns>>

connVars == <<connState, closeCalls>>
sessVars == <<activeConnections, activeCalls, connectionTimeout,
              deepgramConnection, dgConns, cleanups>>
startVars == <<callSession, streamSid, starts, greetings>>
speechVars == <<conversationBuffer, lastSpeechTime, debounceTimers, fragments>>
aiVars == <<histArrays, conversationHistory>>
srvVars == <<connections, shutdowns>>

(* ----------------------------- cleanup -------------------------------- *)
\* the part of the state cleanup reads and writes
Sess ==
    [connectionTimeout  |-> connectionTimeout,
     deepgramConnection |-> deepgramConnection,
     dgConns            |-> dgConns,
     activeConnections  |-> activeConnections,
     activeCalls        |-> activeCalls,
     cleanups           |-> cleanups]

\* DeepgramService.closeConnection: asks for the close unless already CLOSED
closeConnection(conns, h) ==
    IF conns[h].readyState # "closed"
    THEN [conns EXCEPT ![h].readyState = "closing",
                       ![h].closeRequests = @ + 1]
    ELSE conns

\* cleanup that keeps its reference to the speech-recognition connection
cleanupKeepsDeepgram(s) ==
    LET s1 == [s EXCEPT !.connectionTimeout = NONE]
        s2 == IF s1.deepgramConnection # NONE
              THEN [s1 EXCEPT !.dgConns = closeConnection(@, s1.deepgramConnection)]
              ELSE s1
        s3 == [s2 EXCEPT !.activeConnections = @ \ {connectionId}]
        s4 == IF callSession # NoSession
              THEN [s3 EXCEPT !.activeCalls = @ \ {callSession.callSid}]
              ELSE s3
    IN  [s4 EXCEPT !.cleanups = IF @ < 2 THEN @ + 1 ELSE @]

\* cleanup that leaves the registry entry of the connection
cleanupKeepsConnection(s) ==
    LET s1 == [s EXCEPT !.connectionTimeout = NONE]
        s2 == IF s1.deepgramConnection # NONE
              THEN [s1 EXCEPT !.dgConns = closeConnection(@, s1.deepgramConnection),
                              !.deepgramConnection = NONE]
              ELSE s1
        s4 == IF callSession # NoSession
              THEN [s2 EXCEPT !.activeCalls = @ \ {callSession.callSid}]
              ELSE s2
    IN  [s4 EXCEPT !.cleanups = IF @ < 2 THEN @ + 1 ELSE @]

\* cleanup that leaves the registry entry of the call
cleanupKeepsCall(s) ==
    LET s1 == [s EXCEPT !.connectionTimeout = NONE]
        s2 == IF s1.deepgramConnection # NONE
              THEN [s1 EXCEPT !.dgConns = closeConnection(@, s1.deepgramConnection),
                              !.deepgramConnection = NONE]
              ELSE s1
        s3 == [s2 EXCEPT !.activeConnections = @ \ {connectionId}]
    IN  [s3 EXCEPT !.cleanups = IF @ < 2 THEN @ + 1 ELSE @]

cleanup(s) ==
    LET s1 == [s EXCEPT !.connectionTimeout = NONE]
        s2 == IF s1.deepgramConnection # NONE
              THEN [s1 EXCEPT !.dgConns = closeConnection(@, s1.deepgramConnection),
                              !.deepgramConnection = NONE]
              ELSE s1
        s3 == [s2 EXCEPT !.activeConnections = @ \ {connectionId}]
        s4 == IF callSession # NoSession
              THEN [s3 EXCEPT !.activeCalls = @ \ {callSession.callSid}]
              ELSE s3
    IN  [s4 EXCEPT !.cleanups = IF @ < 2 THEN @ + 1 ELSE @]

SetSess(s) ==
    /\ connectionTimeout' = s.connectionTimeout
    /\ deepgramConnection' = s.deepgramConnection
    /\ dgConns' = s.dgConns
    /\ activeConnections' = s.activeConnections
    /\ activeCalls' = s.activeCalls
    /\ cleanups' = s.cleanups

(* ------------------------------ Init ---------------------------------- *)
\* the state right after wsServer's request handler accepted the connection
Init ==
    /\ now = 0
    /\ connState = "open"
    /\ closeCalls = 0
    /\ activeConnections = {connectionId}
    /\ activeCalls = {}
    /\ callSession = NoSession
    /\ streamSid = NULL
    /\ connectionTimeout = IDLE_TIMEOUT_MS
    /\ deepgramConnection = NONE
    /\ dgConns = <<>>
    /\ conversationBuffer = <<>>
    /\ lastSpeechTime = 0
    /\ debounceTimers = EmptyBag
    /\ greetings = <<>>
    /\ orch = <<>>
    /\ outFrames = <<>>
    /\ histArrays = <<>>
    /\ conversationHistory = <<>>
    /\ starts = 0
    /\ fragments = 0
    /\ cleanups = 0
    /\ uncaught = FALSE
    /\ connections = <<>>
    /\ shutdowns = 0


(* ------------------------ processConversation ------------------------- *)
\* one invocation of processConversation; pc is the await it is suspended at
NewOrch(msg, callId, h) ==
    [userMessage |-> msg,
     pc          |-> "ai",
     callSid     |-> callId,   \* the callId of the AI request in flight
     hist        |-> h,        \* the array generateResponseWithTools read
     text        |-> "none",   \* the text handed to textToSpeech
     toolCalls   |-> <<>>,
     toolIdx     |-> 0,
     toolResults |-> <<>>,
     audio       |-> <<>>,     \* initialAudioBuffer
     markName    |-> NONE,
     echo        |-> NONE,     \* mark.name of the frame markHandler accepted
     listener    |-> FALSE,    \* markHandler registered on the connection
     timeout     |-> NONE,     \* NONE or the instant the mark timeout is due
     resolvedBy  |-> "none",   \* what settled audioPlaybackComplete
     listenerAtResolve |-> FALSE, \* markHandler was still registered then
     contRuns    |-> 0,        \* times the code after the await was entered
     ignored     |-> FALSE,    \* markHandler saw a frame it did not accept
     aiRequests  |-> 1,
     sendCalls   |-> 0,
     sent        |-> FALSE]    \* the reply's mark frame went out

\* a continuation that starts with the last tool call of the array
ProceedWithLastToolCall(o) ==
    [o EXCEPT !.pc = "tool", !.toolIdx = Len(o.toolCalls), !.contRuns = @ + 1]

\* the code after `await audioPlaybackComplete`: the first executeToolCall
ProceedWithToolCalls(o) ==
    [o EXCEPT !.pc = "tool", !.toolIdx = 1, !.contRuns = @ + 1]

\* resolve() as a plain callback: every call runs the continuation
resolveEveryCall(o, by) ==
    ProceedWithToolCalls([o EXCEPT !.resolvedBy = by,
                                   !.listenerAtResolve = o.listener])

\* resolve() of the promise: only the first call settles it and schedules
\* the continuation
resolve(o, by) ==
    IF o.resolvedBy = "none"
    THEN ProceedWithToolCalls([o EXCEPT !.resolvedBy = by,
                                        !.listenerAtResolve = o.listener])
    ELSE o

\* the test without the comparison of the name
MarkMatchesAnyName(frame, markName) ==
    frame.event = "mark"

\* the test of markHandler on a parsed inbound frame
MarkMatches(frame, markName) ==
    frame.event = "mark" /\ frame.name = markName

markHandler(o, frame) ==
    IF ~o.listener THEN o
    ELSE IF MarkMatches(frame, o.markName)
         THEN resolve([o EXCEPT !.listener = FALSE, !.echo = frame.name], "echo")
         ELSE [o EXCEPT !.ignored = TRUE]

\* a timer callback that neither detaches the listener nor resolves
markTimeoutKeepsWaiting(o) ==
    o

\* the callback of the 10 s timer
markTimeout(o) ==
    resolve([o EXCEPT !.listener = FALSE, !.timeout = NONE], "timeout")

\* the .catch handler of the send inside the promise executor
sendFailed(o) ==
    resolve([o EXCEPT !.listener = FALSE, !.timeout = NONE], "sendfail")

\* the tool loop entered without the await
audioPlaybackNotAwaited(o, threw) ==
    ProceedWithToolCalls(o)

\* `await audioPlaybackComplete` once the executor has run: the send threw
\* and its .catch handler resolved the promise, or processConversation
\* stays suspended until markHandler or the timer resolves it
audioPlaybackComplete(o, threw) ==
    IF threw THEN sendFailed(o) ELSE o

(* -------------------------- inbound frames ---------------------------- *)
BogusMark == 7

SentMarkNames == {outFrames[k].name : k \in {j \in DOMAIN outFrames : outFrames[j].event = "mark"}}

\* frames without a payload the handlers read
PlainFrames(events) == {[event |-> e] : e \in events}

StartFrames ==
    {[event |-> "start", callSid |-> c, streamSid |-> m] : c \in CallSids, m \in StreamSids}

StopFrames == {[event |-> "stop", callSid |-> c] : c \in CallSids}

\* start and stop frames that lack data.start and data.stop
BareFrames == PlainFrames({"start", "stop"})

\* the provider echoes the marks it was sent; BogusMark is a name never sent
MarkFrames == {[event |-> "mark", name |-> n] : n \in SentMarkNames \cup {BogusMark}}

NewDeepgram == [readyState |-> "open", closeRequests |-> 0, audioChunks |-> 0]

NewGreeting == [pc |-> "timer", due |-> now + GREETING_DELAY_MS]

\* handleCallStart without the clearTimeout of the idle timer
handleCallStartKeepsTimer(frame, dgOk) ==
    /\ starts < MaxStarts
    /\ starts' = starts + 1
    /\ streamSid' = frame.streamSid
    /\ UNCHANGED connectionTimeout
    /\ callSession' = [callSid |-> frame.callSid, status |-> "CONNECTED",
                       endTime |-> FALSE, transcripts |-> <<>>,
                       aiResponses |-> 0]
    /\ activeCalls' = activeCalls \cup {frame.callSid}
    /\ IF dgOk
       THEN /\ dgConns' = Append(dgConns, NewDeepgram)
            /\ deepgramConnection' = Len(dgConns) + 1
       ELSE UNCHANGED <<dgConns, deepgramConnection>>
    /\ greetings' = Append(greetings, NewGreeting)
    /\ cleanups' = 0
    /\ UNCHANGED <<activeConnections, conversationHistory>>

\* handleCallStart; dgOk: createLiveTranscription did not throw
handleCallStart(frame, dgOk) ==
    /\ starts < MaxStarts
    /\ starts' = starts + 1
    /\ streamSid' = frame.streamSid
    /\ connectionTimeout' = NONE
    /\ callSession' = [callSid |-> frame.callSid, status |-> "CONNECTED",
                       endTime |-> FALSE, transcripts |-> <<>>,
                       aiResponses |-> 0]
    /\ activeCalls' = activeCalls \cup {frame.callSid}
    /\ IF dgOk
       THEN /\ dgConns' = Append(dgConns, NewDeepgram)
            /\ deepgramConnection' = Len(dgConns) + 1
       ELSE UNCHANGED <<dgConns, deepgramConnection>>
    /\ greetings' = Append(greetings, NewGreeting)
    /\ cleanups' = 0
    /\ UNCHANGED <<activeConnections, conversationHistory>>

handleMediaData ==
    /\ IF streamSid = NULL \/ deepgramConnection = NONE
       THEN UNCHANGED dgConns
       ELSE /\ dgConns[deepgramConnection].audioChunks < MaxMedia
            /\ dgConns' = [dgConns EXCEPT ![deepgramConnection].audioChunks = @ + 1]
    /\ UNCHANGED <<activeConnections, activeCalls, connectionTimeout,
                   deepgramConnection, cleanups, startVars, conversationHistory>>

\* AIService.clearConversationHistory
clearConversationHistory(h, callId) ==
    [c \in DOMAIN h \ {callId} |-> h[c]]

handleCallStop(frame) ==
    /\ IF callSession # NoSession
       THEN /\ callSession' = [callSession EXCEPT !.status = "ENDED", !.endTime = TRUE]
            /\ conversationHistory' = clearConversationHistory(conversationHistory, frame.callSid)
       ELSE UNCHANGED <<callSession, conversationHistory>>
    /\ SetSess(cleanup(Sess))
    /\ UNCHANGED <<streamSid, starts, greetings>>

\* JSON.parse throws on a malformed frame, and the destructuring of
\* data.start or data.stop throws on a frame that lacks the payload
Throws(frame) ==
    \/ frame.event = "malformed"
    \/ frame.event \in {"start", "stop"} /\ "callSid" \notin DOMAIN frame

\* a message handler without its try block
messageHandlerWithoutCatch(threw) ==
    threw

\* the try block of the message handler catches and logs whatever is thrown
\* inside, awaited handlers included: nothing leaves the handler
messageHandlerRaises(threw) ==
    FALSE

\* a handler that ends the session on every frame it does not know
OnMessageStrict(frame, dgOk) ==
    /\ connState \in {"open", "closing"}
    /\ frame.event # "start" => dgOk
    /\ IF Throws(frame)
       THEN UNCHANGED <<sessVars, startVars, conversationHistory>>
       ELSE CASE frame.event = "start" -> handleCallStart(frame, dgOk)
              [] frame.event = "media" -> handleMediaData
              [] frame.event = "stop"  -> handleCallStop(frame)
              [] OTHER -> /\ SetSess(cleanup(Sess))
                          /\ UNCHANGED <<startVars, conversationHistory>>
    /\ uncaught' = (uncaught \/ messageHandlerRaises(Throws(frame)))
    /\ orch' = [i \in DOMAIN orch |-> markHandler(orch[i], frame)]
    /\ UNCHANGED <<now, connVars, srvVars, speechVars, outFrames, histArrays>>

\* connection.on('message'): JSON.parse and the switch on data.event inside
\* the try block, then the markHandler listeners registered at that moment
OnMessage(frame, dgOk) ==
    /\ connState \in {"open", "closing"}
    /\ frame.event # "start" => dgOk
    /\ IF Throws(frame)
       THEN UNCHANGED <<sessVars, startVars, conversationHistory>>
       ELSE CASE frame.event = "start" -> handleCallStart(frame, dgOk)
              [] frame.event = "media" -> handleMediaData
              [] frame.event = "stop"  -> handleCallStop(frame)
              [] OTHER -> UNCHANGED <<sessVars, startVars, conversationHistory>>
    /\ uncaught' = (uncaught \/ messageHandlerRaises(Throws(frame)))
    /\ orch' = [i \in DOMAIN orch |-> markHandler(orch[i], frame)]
    /\ UNCHANGED <<now, connVars, srvVars, speechVars, outFrames, histArrays>>

\* connection.on('close')
OnClose ==
    /\ connState # "closed"
    /\ connState' = "closed"
    /\ SetSess(cleanup(Sess))
    /\ UNCHANGED <<now, closeCalls, uncaught, srvVars, startVars, speechVars, orch, outFrames,
                   aiVars>>

\* connection.on('error')
OnError ==
    /\ connState # "closed"
    /\ SetSess(cleanup(Sess))
    /\ UNCHANGED <<now, connVars, uncaught, srvVars, startVars, speechVars, orch, outFrames, aiVars>>

\* the callback of the idle timer set at accept
ConnectionTimeoutFires ==
    /\ connectionTimeout # NONE
    /\ now >= connectionTimeout
    /\ SetSess(cleanup(Sess))
    /\ closeCalls' = closeCalls + 1
    /\ connState' = IF connState = "open" THEN "closing" ELSE connState
    /\ UNCHANGED <<now, uncaught, srvVars, startVars, speechVars, orch, outFrames, aiVars>>

\* the speech-recognition backend closes connection h
DeepgramCloses(h) ==
    /\ dgConns[h].readyState # "closed"
    /\ dgConns' = [dgConns EXCEPT ![h].readyState = "closed"]
    /\ UNCHANGED <<now, connVars, uncaught, srvVars, activeConnections, activeCalls, connectionTimeout,
                   deepgramConnection, cleanups, startVars, speechVars, orch,
                   outFrames, aiVars>>


(* ------------------------- sendAudioToTwilio -------------------------- *)
\* the buffers ElevenLabsService.textToSpeech returns in this model
TtsBuffers == {<<72, 105, 33>>}

\* what the TTS backend and the transport do for one textToSpeech-and-send:
\* textToSpeech throws, or returns audio; failAt = k lets the (k+1)-th
\* sendUTF of the send that follows throw, NONE lets every sendUTF succeed
TtsResults ==
    {[ok |-> FALSE, audio |-> <<>>, failAt |-> NONE]}
    \cup {[ok |-> TRUE, audio |-> b, failAt |-> k] :
             b \in TtsBuffers, k \in {NONE} \cup 0..1}

TtsNoFault == {r \in TtsResults : r.ok /\ r.failAt = NONE}

\* a send without the two guards
sendAudioToTwilioUnguarded(buf, markName, failAt) ==
    LET fs == SendFrames(buf, streamSid, IF markName # NONE THEN markName ELSE now)
    IN  IF failAt # NONE /\ failAt < Len(fs)
        THEN [frames |-> SubSeq(fs, 1, failAt), threw |-> TRUE, complete |-> FALSE]
        ELSE [frames |-> fs, threw |-> FALSE, complete |-> TRUE]

\* a send that yields after its first sendUTF while another send of the same
\* audio runs on the connection
sendAudioToTwilioYielding(buf, markName, failAt) ==
    IF streamSid = NULL \/ connState # "open"
    THEN [frames |-> <<>>, threw |-> FALSE, complete |-> FALSE]
    ELSE LET fs == SendFrames(buf, streamSid, IF markName # NONE THEN markName ELSE now)
         IN  IF failAt # NONE /\ failAt < Len(fs)
             THEN [frames |-> SubSeq(fs, 1, failAt), threw |-> TRUE, complete |-> FALSE]
             ELSE [frames |-> <<Head(fs)>> \o SendFrames(buf, streamSid, now) \o Tail(fs),
                   threw |-> FALSE, complete |-> TRUE]

\* what one call sendAudioToTwilio(buf, markName) does: the frames sendUTF
\* accepted, whether a sendUTF threw (the call then rethrows), and whether
\* all frames went out.  Without a stream identifier or on a connection that
\* is not open nothing is sent.
sendAudioToTwilio(buf, markName, failAt) ==
    IF streamSid = NULL \/ connState # "open"
    THEN [frames |-> <<>>, threw |-> FALSE, complete |-> FALSE]
    ELSE LET fs == SendFrames(buf, streamSid, IF markName # NONE THEN markName ELSE now)
         IN  IF failAt # NONE /\ failAt < Len(fs)
             THEN [frames |-> SubSeq(fs, 1, failAt), threw |-> TRUE, complete |-> FALSE]
             ELSE [frames |-> fs, threw |-> FALSE, complete |-> TRUE]

(* ------------------------------ AIService ----------------------------- *)
HISTORY_CAP == 20

\* Array.prototype.slice(-20)
LastMessages(a) ==
    IF Len(a) > HISTORY_CAP THEN SubSeq(a, Len(a) - HISTORY_CAP + 1, Len(a)) ELSE a

\* conversationHistory.set(callId, array h)
SetHistory(m, callId, h) ==
    [c \in DOMAIN m \cup {callId} |-> IF c = callId THEN h ELSE m[c]]

ToolCallLists == UNION {[1..n -> ToolNames] : n \in 0..MaxTools}

\* what generateResponseWithTools can come back with: a parsed reply, a reply
\* without a text, or the fallback text after the backend threw
AiReplies ==
    {[kind |-> "apiError", toolCalls |-> <<>>], [kind |-> "noText", toolCalls |-> <<>>]}
    \cup {[kind |-> "ok", toolCalls |-> t] : t \in ToolCallLists}

\* ToolService.executeToolCall: the results a tool name can produce
ToolOutcomes(name) ==
    IF name \in {"hang_up_call", "transfer_call"} THEN BOOLEAN ELSE {FALSE}

\* the test never taken
HangUpNeverEndsLoop(name, success) ==
    FALSE

\* a loop that a failed tool call ends as well
FailureEndsLoop(name, success) ==
    (name = "hang_up_call" /\ success) \/ ~success

\* the test that ends processConversation inside the tool loop
HangUpEndsLoop(name, success) ==
    name = "hang_up_call" /\ success

(* ---------------------- the utterance debouncer ----------------------- *)
\* a test that lets every fragment through
EveryFragmentIsSpeech(text, isFinal) ==
    TRUE

\* `result.isFinal && result.text.trim()`
IsFinalSpeech(text, isFinal) ==
    isFinal /\ Trim(text) # <<>>

\* the entry pushed onto callSession.transcripts
TranscriptEntry(text) ==
    [text |-> text, timestamp |-> now, speaker |-> "user"]

\* onTranscript of the speech-recognition connection h
OnTranscript(h, text, isFinal) ==
    /\ dgConns[h].readyState # "closed"
    /\ IF IsFinalSpeech(text, isFinal)
       THEN /\ fragments < MaxFragments
            /\ fragments' = fragments + 1
            /\ callSession' = [callSession EXCEPT
                                 !.transcripts = Append(@, TranscriptEntry(text))]
            /\ conversationBuffer' = conversationBuffer \o text \o <<" ">>
            /\ lastSpeechTime' = now
            /\ debounceTimers' = debounceTimers (+) SetToBag({now + QUIET_WINDOW_MS})
       ELSE UNCHANGED <<fragments, callSession, speechVars>>
    /\ UNCHANGED <<now, connVars, uncaught, srvVars, sessVars, streamSid, starts, greetings, orch,
                   outFrames, aiVars>>

\* a test of the elapsed time alone
QuietWindowElapsedOnly ==
    now - lastSpeechTime >= QUIET_WINDOW_MS

\* the test of the quiet-window timer callback
QuietWindowElapsed ==
    now - lastSpeechTime >= QUIET_WINDOW_MS /\ Trim(conversationBuffer) # <<>>

\* the callback of a quiet-window timer: flushes by calling
\* processConversation, which runs up to its first await (the AI request)
DebounceTimerFires(due) ==
    /\ BagIn(due, debounceTimers)
    /\ now >= due
    /\ debounceTimers' = debounceTimers (-) SetToBag({due})
    /\ IF QuietWindowElapsed
       THEN IF callSession = NoSession \/ streamSid = NULL
            THEN /\ conversationBuffer' = <<>>
                 /\ UNCHANGED <<orch, histArrays>>
            ELSE LET callId == callSession.callSid
                     known  == callId \in DOMAIN conversationHistory
                     h      == IF known THEN conversationHistory[callId]
                               ELSE Len(histArrays) + 1
                 IN  /\ histArrays' = IF known THEN histArrays
                                      ELSE Append(histArrays, <<>>)
                     /\ orch' = Append(orch, NewOrch(Trim(conversationBuffer), callId, h))
                     /\ UNCHANGED conversationBuffer
       ELSE UNCHANGED <<conversationBuffer, orch, histArrays>>
    /\ UNCHANGED <<now, connVars, uncaught, srvVars, sessVars, startVars, lastSpeechTime, fragments,
                   outFrames, conversationHistory>>


(* -------------------- steps of processConversation -------------------- *)
\* orchestration i becomes o; when processConversation has returned, the
\* timer callback that awaited it clears the buffer
Becomes(i, o) ==
    /\ orch' = [orch EXCEPT ![i] = o]
    /\ conversationBuffer' = IF o.pc = "done" THEN <<>> ELSE conversationBuffer

\* a catch block that lets the error out of processConversation
CatchRaises(o) == [o EXCEPT !.pc = "raised"]

\* the catch block: the apology is requested from the TTS backend
Catch(o) == [o EXCEPT !.pc = "fallback_tts", !.text = "apology"]

\* generateResponseWithTools returns
AiReturns(i, reply) ==
    /\ i \in DOMAIN orch
    /\ orch[i].pc = "ai"
    /\ LET o == orch[i]
       IN  /\ IF reply.kind = "apiError"
              THEN UNCHANGED aiVars
              ELSE /\ histArrays' = [histArrays EXCEPT
                                       ![o.hist] = @ \o <<"user", "assistant">>]
                   /\ conversationHistory' = SetHistory(conversationHistory, o.callSid, o.hist)
           /\ IF reply.kind = "noText"
              THEN /\ Becomes(i, Catch(o))
                   /\ UNCHANGED callSession
              ELSE /\ callSession' = [callSession EXCEPT !.aiResponses = @ + 1]
                   /\ Becomes(i, [o EXCEPT !.pc = "tts", !.toolCalls = reply.toolCalls,
                                            !.text = IF reply.kind = "apiError"
                                                     THEN "ai_apology" ELSE "reply"])
    /\ UNCHANGED <<now, connVars, uncaught, srvVars, sessVars, streamSid, starts, greetings,
                   lastSpeechTime, debounceTimers, fragments, outFrames>>

\* a test that takes every reply for one with tool calls
EveryReplyHasToolCalls(o) ==
    TRUE

\* `aiResponse.toolCalls && aiResponse.toolCalls.length > 0`: a reply without
\* the field and one with an empty array are both the empty sequence here
HasToolCalls(o) ==
    o.toolCalls # <<>>

\* a PendingAck whose markHandler is never registered
createPendingAckWithoutListener(o) ==
    [o EXCEPT !.pc = "mark_wait", !.markName = now,
              !.timeout = now + MARK_TIMEOUT_MS]

\* the executor of audioPlaybackComplete up to the send: the mark name is
\* taken from the clock, markHandler is registered on the connection and the
\* 10 s timer is set
createPendingAck(o) ==
    [o EXCEPT !.pc = "mark_wait", !.markName = now,
              !.listener = TRUE,
              !.timeout = now + MARK_TIMEOUT_MS]

\* textToSpeech of the reply returns; with tool calls the PendingAck is set
\* up and the audio is sent with its mark, without them the audio is sent
TtsReturns(i, res) ==
    /\ i \in DOMAIN orch
    /\ orch[i].pc = "tts"
    /\ LET o == orch[i]
       IN  IF ~res.ok
           THEN Becomes(i, Catch(o)) /\ UNCHANGED outFrames
           ELSE IF HasToolCalls(o)
           THEN LET out == sendAudioToTwilio(res.audio, now, res.failAt)
                    o1 == [createPendingAck(o) EXCEPT !.audio = res.audio,
                                                      !.sendCalls = @ + 1,
                                                      !.sent = out.complete]
                IN  /\ outFrames' = outFrames \o out.frames
                    /\ Becomes(i, audioPlaybackComplete(o1, out.threw))
           ELSE LET out == sendAudioToTwilio(res.audio, NONE, res.failAt)
                    o1  == [o EXCEPT !.audio = res.audio, !.sendCalls = @ + 1,
                                     !.sent = out.complete]
                IN  /\ outFrames' = outFrames \o out.frames
                    /\ Becomes(i, IF out.threw THEN Catch(o1)
                                  ELSE [o1 EXCEPT !.pc = "done"])
    /\ UNCHANGED <<now, connVars, uncaught, srvVars, sessVars, startVars, lastSpeechTime,
                   debounceTimers, fragments, aiVars>>

\* the 10 s timer of orchestration i fires
MarkTimeoutFires(i) ==
    /\ i \in DOMAIN orch
    /\ orch[i].timeout # NONE
    /\ now >= orch[i].timeout
    /\ Becomes(i, markTimeout(orch[i]))
    /\ UNCHANGED <<now, connVars, uncaught, srvVars, sessVars, startVars, lastSpeechTime,
                   debounceTimers, fragments, outFrames, aiVars>>

\* a test that skips the follow-up step
NoFollowUp(results) ==
    FALSE

\* `toolResults.length > 0`: the follow-up step runs when the loop collected
\* a result
FollowUpNeeded(results) ==
    Len(results) > 0

\* executeToolCall of the current tool call returns; the loop goes on to the
\* next call, returns after a successful hang_up_call, or requests the
\* follow-up reply (generateResponse up to its await)
ToolReturns(i, success) ==
    /\ i \in DOMAIN orch
    /\ orch[i].pc = "tool"
    /\ LET o    == orch[i]
           name == o.toolCalls[o.toolIdx]
           o1   == [o EXCEPT !.toolResults = Append(@, [tool |-> name, success |-> success])]
       IN  /\ success \in ToolOutcomes(name)
           /\ IF HangUpEndsLoop(name, success)
              THEN Becomes(i, [o1 EXCEPT !.pc = "done"]) /\ UNCHANGED aiVars
              ELSE IF o.toolIdx < Len(o.toolCalls)
              THEN Becomes(i, [o1 EXCEPT !.toolIdx = @ + 1]) /\ UNCHANGED aiVars
              ELSE IF ~FollowUpNeeded(o1.toolResults)
              THEN Becomes(i, [o1 EXCEPT !.pc = "done"]) /\ UNCHANGED aiVars
              ELSE LET callId == callSession.callSid
                       known  == callId \in DOMAIN conversationHistory
                       h      == IF known THEN conversationHistory[callId]
                                 ELSE Len(histArrays) + 1
                       arrs   == IF known THEN histArrays ELSE Append(histArrays, <<>>)
                   IN  /\ histArrays' = [arrs EXCEPT ![h] = Append(@, "user")]
                       /\ UNCHANGED conversationHistory
                       /\ Becomes(i, [o1 EXCEPT !.pc = "followup_ai", !.hist = h,
                                                !.callSid = callId,
                                                !.aiRequests = @ + 1])
    /\ UNCHANGED <<now, connVars, uncaught, srvVars, sessVars, startVars, lastSpeechTime,
                   debounceTimers, fragments, outFrames>>

\* generateResponse for the follow-up returns or throws
FollowUpAiReturns(i, ok) ==
    /\ i \in DOMAIN orch
    /\ orch[i].pc = "followup_ai"
    /\ LET o == orch[i]
       IN  IF ok
           THEN LET full == Append(histArrays[o.hist], "assistant")
                IN  /\ histArrays' = Append([histArrays EXCEPT ![o.hist] = full],
                                            LastMessages(full))
                    /\ conversationHistory' =
                           SetHistory(conversationHistory, o.callSid, Len(histArrays) + 1)
                    /\ Becomes(i, [o EXCEPT !.pc = "followup_tts"])
           ELSE /\ UNCHANGED aiVars
                /\ Becomes(i, Catch(o))
    /\ UNCHANGED <<now, connVars, uncaught, srvVars, sessVars, startVars, lastSpeechTime,
                   debounceTimers, fragments, outFrames>>

\* textToSpeech of the follow-up returns; the audio is sent without a wait
FollowUpTtsReturns(i, res) ==
    /\ i \in DOMAIN orch
    /\ orch[i].pc = "followup_tts"
    /\ LET o == orch[i]
       IN  IF ~res.ok
           THEN Becomes(i, Catch(o)) /\ UNCHANGED outFrames
           ELSE LET out == sendAudioToTwilio(res.audio, NONE, res.failAt)
                    o1  == [o EXCEPT !.sendCalls = @ + 1]
                IN  /\ outFrames' = outFrames \o out.frames
                    /\ Becomes(i, IF out.threw THEN Catch(o1)
                                  ELSE [o1 EXCEPT !.pc = "done"])
    /\ UNCHANGED <<now, connVars, uncaught, srvVars, sessVars, startVars, lastSpeechTime,
                   debounceTimers, fragments, aiVars>>

\* textToSpeech of the apology returns; a failure here is swallowed
FallbackTtsReturns(i, res) ==
    /\ i \in DOMAIN orch
    /\ orch[i].pc = "fallback_tts"
    /\ LET o == orch[i]
       IN  IF ~res.ok
           THEN Becomes(i, [o EXCEPT !.pc = "done"]) /\ UNCHANGED outFrames
           ELSE LET out == sendAudioToTwilio(res.audio, NONE, res.failAt)
                IN  /\ outFrames' = outFrames \o out.frames
                    /\ Becomes(i, [o EXCEPT !.pc = "done", !.sendCalls = @ + 1])
    /\ UNCHANGED <<now, connVars, uncaught, srvVars, sessVars, startVars, lastSpeechTime,
                   debounceTimers, fragments, aiVars>>

(* ----------------------------- greeting ------------------------------- *)
\* the callback of the greeting timer requests the greeting audio
GreetingTimerFires(g) ==
    /\ g \in DOMAIN greetings
    /\ greetings[g].pc = "timer"
    /\ now >= greetings[g].due
    /\ greetings' = [greetings EXCEPT ![g].pc = "tts"]
    /\ UNCHANGED <<now, connVars, uncaught, srvVars, sessVars, callSession, streamSid, starts,
                   speechVars, orch, outFrames, aiVars>>

\* the try block of the greeting timer's callback catches and logs a failing
\* textToSpeech and a throwing send
greetingTimerRaises(threw) ==
    FALSE

\* textToSpeech of the greeting returns; failures are logged
GreetingTtsReturns(g, res) ==
    /\ g \in DOMAIN greetings
    /\ greetings[g].pc = "tts"
    /\ greetings' = [greetings EXCEPT ![g].pc = "done"]
    /\ LET out == sendAudioToTwilio(res.audio, NONE, res.failAt)
       IN  /\ outFrames' = IF res.ok THEN outFrames \o out.frames ELSE outFrames
           /\ uncaught' = (uncaught \/ greetingTimerRaises(~res.ok \/ out.threw))
    /\ UNCHANGED <<now, connVars, srvVars, sessVars, callSession, streamSid, starts,
                   speechVars, orch, aiVars>>

(* ------------------------------- time --------------------------------- *)
\* the instants at which a pending timer is due
PendingDue ==
    (IF connectionTimeout # NONE THEN {connectionTimeout} ELSE {})
    \cup BagToSet(debounceTimers)
    \cup {greetings[g].due : g \in {k \in DOMAIN greetings : greetings[k].pc = "timer"}}
    \cup {orch[i].timeout : i \in {k \in DOMAIN orch : orch[k].timeout # NONE}}

\* the clock advances by one tick
Tick ==
    /\ now < MaxTime
    /\ now' = now + TickMs
    /\ UNCHANGED <<connVars, uncaught, srvVars, sessVars, startVars, speechVars, orch, outFrames, aiVars>>

\* nothing happens until the next pending timer is due
WaitForTimer ==
    /\ \E d \in PendingDue :
         /\ d > now
         /\ \A e \in PendingDue : e > now => d <= e
         /\ now' = d
    /\ UNCHANGED <<connVars, uncaught, srvVars, sessVars, startVars, speechVars, orch, outFrames, aiVars>>

(* --------------------------- specifications --------------------------- *)
\* Spec: the life cycle of one accepted connection (frames, idle timer,
\* close and error events, the speech-recognition connection, the greeting)
LifecycleFrames ==
    PlainFrames({"connected", "media", "other", "malformed"})
    \cup StartFrames \cup StopFrames \cup MarkFrames \cup BareFrames

Next ==
    \/ \E f \in LifecycleFrames, dgOk \in BOOLEAN : OnMessage(f, dgOk)
    \/ OnClose
    \/ OnError
    \/ ConnectionTimeoutFires
    \/ \E h \in DOMAIN dgConns : DeepgramCloses(h)
    \/ \E g \in DOMAIN greetings : GreetingTimerFires(g)
    \/ \E g \in DOMAIN greetings, r \in TtsResults : GreetingTtsReturns(g, r)
    \/ Tick
    \/ WaitForTimer

Spec == Init /\ [][Next]_vars

\* the state of Spec in which the start frame was handled at instant 0 and
\* the greeting was synthesized and sent when its timer fired
GreetingBuffer == CHOOSE b \in TtsBuffers : TRUE

InitStarted ==
    /\ now = GREETING_DELAY_MS
    /\ connState = "open"
    /\ closeCalls = 0
    /\ activeConnections = {connectionId}
    /\ activeCalls = {"CA1"}
    /\ callSession = [callSid |-> "CA1", status |-> "CONNECTED", endTime |-> FALSE,
                      transcripts |-> <<>>, aiResponses |-> 0]
    /\ streamSid = "MZ1"
    /\ connectionTimeout = NONE
    /\ deepgramConnection = 1
    /\ dgConns = <<NewDeepgram>>
    /\ conversationBuffer = <<>>
    /\ lastSpeechTime = 0
    /\ debounceTimers = EmptyBag
    /\ greetings = <<[pc |-> "done", due |-> GREETING_DELAY_MS]>>
    /\ orch = <<>>
    /\ outFrames = SendFrames(GreetingBuffer, "MZ1", GREETING_DELAY_MS)
    /\ histArrays = <<>>
    /\ conversationHistory = <<>>
    /\ starts = 1
    /\ fragments = 0
    /\ cleanups = 0
    /\ uncaught = FALSE
    /\ connections = <<>>
    /\ shutdowns = 0

\* SpecDebounce: a started session receives transcript fragments; the
\* quiet-window timers flush them into processConversation
DebounceReplies ==
    {[kind |-> "ok", toolCalls |-> <<>>], [kind |-> "ok", toolCalls |-> <<"hang_up_call">>]}

\* the echoes of the marks the orchestrations wait for
AckEchoes ==
    {[event |-> "mark", name |-> orch[i].markName] :
        i \in {k \in DOMAIN orch : orch[k].markName # NONE}}

NextDebounce ==
    \/ \E h \in DOMAIN dgConns, t \in FragmentTexts, f \in BOOLEAN : OnTranscript(h, t, f)
    \/ \E d \in BagToSet(debounceTimers) : DebounceTimerFires(d)
    \/ \E i \in DOMAIN orch, r \in DebounceReplies : AiReturns(i, r)
    \/ \E i \in DOMAIN orch, r \in TtsNoFault : TtsReturns(i, r)
    \/ \E f \in AckEchoes : OnMessage(f, TRUE)
    \/ \E i \in DOMAIN orch : MarkTimeoutFires(i)
    \/ \E i \in DOMAIN orch : ToolReturns(i, TRUE)
    \/ Tick
    \/ WaitForTimer

SpecDebounce == InitStarted /\ [][NextDebounce]_vars

\* the state of SpecDebounce in which the fragment "a" arrived with the
\* greeting and its quiet-window timer has just flushed it
InitFlushed ==
    /\ now = GREETING_DELAY_MS + QUIET_WINDOW_MS
    /\ connState = "open"
    /\ closeCalls = 0
    /\ activeConnections = {connectionId}
    /\ activeCalls = {"CA1"}
    /\ callSession = [callSid |-> "CA1", status |-> "CONNECTED", endTime |-> FALSE,
                      transcripts |-> <<[text |-> <<"a">>, timestamp |-> GREETING_DELAY_MS,
                                         speaker |-> "user"]>>,
                      aiResponses |-> 0]
    /\ streamSid = "MZ1"
    /\ connectionTimeout = NONE
    /\ deepgramConnection = 1
    /\ dgConns = <<NewDeepgram>>
    /\ conversationBuffer = <<"a", " ">>
    /\ lastSpeechTime = GREETING_DELAY_MS
    /\ debounceTimers = EmptyBag
    /\ greetings = <<[pc |-> "done", due |-> GREETING_DELAY_MS]>>
    /\ orch = <<NewOrch(<<"a">>, "CA1", 1)>>
    /\ outFrames = SendFrames(GreetingBuffer, "MZ1", GREETING_DELAY_MS)
    /\ histArrays = << <<>> >>
    /\ conversationHistory = <<>>
    /\ starts = 1
    /\ fragments = 1
    /\ cleanups = 0
    /\ uncaught = FALSE
    /\ connections = <<>>
    /\ shutdowns = 0

\* SpecOrch: one processConversation from its AI request to its return,
\* with the frames, the close and error events and the timers around it
OrchFrames ==
    PlainFrames({"connected", "malformed"}) \cup StopFrames \cup MarkFrames
    \cup BareFrames

NextOrch ==
    \/ \E f \in OrchFrames : OnMessage(f, TRUE)
    \/ OnClose
    \/ OnError
    \/ \E i \in DOMAIN orch, r \in AiReplies : AiReturns(i, r)
    \/ \E i \in DOMAIN orch, r \in TtsResults : TtsReturns(i, r)
    \/ \E i \in DOMAIN orch : MarkTimeoutFires(i)
    \/ \E i \in DOMAIN orch, ok \in BOOLEAN : ToolReturns(i, ok)
    \/ \E i \in DOMAIN orch, ok \in BOOLEAN : FollowUpAiReturns(i, ok)
    \/ \E i \in DOMAIN orch, r \in TtsResults : FollowUpTtsReturns(i, r)
    \/ \E i \in DOMAIN orch, r \in TtsResults : FallbackTtsReturns(i, r)
    \/ WaitForTimer

SpecOrch == InitFlushed /\ [][NextOrch]_vars


OtherFramesKeepAck ==
    [][\A f \in OrchFrames :
         OnMessage(f, TRUE) =>
            \A i \in DOMAIN orch :
               (orch[i].pc = "mark_wait"
                  /\ ~(f.event = "mark" /\ f.name = orch[i].markName)) =>
               /\ orch'[i].pc = "mark_wait"
               /\ orch'[i].listener
               /\ orch'[i].resolvedBy = "none"
               /\ orch'[i].toolIdx = 0
      ]_vars

\* C7 witness: markHandler has seen a frame it did not accept and the
\* PendingAck is still outstanding.
AckOutstandingAfterOtherFrame ==
    \E i \in DOMAIN orch :
        orch[i].pc = "mark_wait" /\ orch[i].ignored /\ orch[i].listener

\* C8: after a hang_up_call that reported success, processConversation has
\* returned: that call is the last one executed, no follow-up AI request was
\* issued and no audio was sent after the reply's own.
HangUpEndsProcessing ==
    \A i \in DOMAIN orch :
        \A k \in DOMAIN orch[i].toolResults :
            (orch[i].toolResults[k].tool = "hang_up_call"
               /\ orch[i].toolResults[k].success) =>
            /\ k = Len(orch[i].toolResults)
            /\ orch[i].toolIdx = k
            /\ orch[i].pc = "done"
            /\ orch[i].aiRequests = 1
            /\ orch[i].sendCalls = 1

\* C8 witness: a successful hang_up_call was followed by another tool call
\* in the array, which was not executed.
HangUpSkippedLaterCall ==
    \E i \in DOMAIN orch :
        /\ orch[i].toolResults # <<>>
        /\ orch[i].toolResults[Len(orch[i].toolResults)] =
              [tool |-> "hang_up_call", success |-> TRUE]
        /\ Len(orch[i].toolCalls) > Len(orch[i].toolResults)
        /\ orch[i].pc = "done"


(* -------------------- properties of SpecDebounce ---------------------- *)
\* C2: utterances are processed one at a time: at most one
\* processConversation of the connection has been entered and has not
\* returned yet.
OneUtteranceAtATime ==
    Cardinality({i \in DOMAIN orch : orch[i].pc # "done"}) <= 1

\* C3: a session has at most one outstanding PendingAck (a registered mark
\* listener whose promise is not resolved yet).
AtMostOnePendingAck ==
    Cardinality({i \in DOMAIN orch : orch[i].pc = "mark_wait"}) <= 1

\* the buffer text that the logged fragments add up to
RECURSIVE JoinFragments(_)
JoinFragments(ts) ==
    IF ts = <<>> THEN <<>>
    ELSE JoinFragments(SubSeq(ts, 1, Len(ts) - 1)) \o ts[Len(ts)].text \o <<" ">>

\* every logged fragment arrived less than the quiet window after the one
\* before it
OneBurst ==
    \A k \in 2..Len(callSession.transcripts) :
        callSession.transcripts[k].timestamp
            - callSession.transcripts[k - 1].timestamp < QUIET_WINDOW_MS

\* C4: for fragments that arrive in one burst, the debouncer calls
\* processConversation at most once, and once every quiet-window timer has
\* fired exactly once, with all fragments concatenated in arrival order.
BurstFlushedOnce ==
    (callSession.transcripts # <<>> /\ OneBurst) =>
        /\ Len(orch) <= 1
        /\ \A i \in DOMAIN orch :
              orch[i].userMessage = Trim(JoinFragments(callSession.transcripts))
        /\ debounceTimers = EmptyBag => Len(orch) = 1


(* ------------------------ properties of Spec -------------------------- *)
\* C9: cleanup is idempotent: in every reachable state, running cleanup a
\* second time right after a first run changes neither the idle timer, the
\* reference to the speech-recognition connection, activeConnections nor
\* activeCalls, and the two runs together ask each speech-recognition
\* connection to close at most once.
CleanupIdempotent ==
    LET once  == cleanup(Sess)
        twice == cleanup(once)
    IN  /\ twice.connectionTimeout = once.connectionTimeout
        /\ twice.deepgramConnection = once.deepgramConnection
        /\ twice.activeConnections = once.activeConnections
        /\ twice.activeCalls = once.activeCalls
        /\ \A h \in DOMAIN dgConns :
              /\ twice.dgConns[h].readyState = once.dgConns[h].readyState
              /\ twice.dgConns[h].closeRequests <= dgConns[h].closeRequests + 1

\* C9 witness: cleanup has run twice on a started session (from stop and
\* again from close or error) and its speech-recognition connection was
\* asked to close once.
CleanupRanTwice ==
    /\ cleanups = 2
    /\ callSession # NoSession
    /\ callSession.status = "ENDED"
    /\ dgConns # <<>>
    /\ dgConns[1].closeRequests = 1

SpecIdle ==
    Spec /\ WF_vars(WaitForTimer) /\ WF_vars(ConnectionTimeoutFires)

(* ------------------- SpecSend: sendAudioToTwilio ---------------------- *)
\* buffer lengths around the multiples of the chunk size
SendLengths ==
    0..3 \cup {k * CHUNK_SIZE + d : k \in 1..MaxChunks, d \in {-1, 0, 1}}

\* buffers whose bytes differ from position to position
SendBuffers ==
    {[i \in 1..L |-> (i * m) % 256] : L \in SendLengths, m \in {1, 7, 255}}

\* textToSpeech returns one of the buffers, or throws; the send that follows
\* succeeds or its (k+1)-th sendUTF throws
SendResults ==
    {[ok |-> FALSE, audio |-> <<>>, failAt |-> NONE]}
    \cup {[ok |-> TRUE, audio |-> b, failAt |-> k] :
             b \in SendBuffers, k \in {NONE} \cup 0..MaxChunks}

\* processConversation has the AI reply, with or without tool calls, and
\* awaits textToSpeech; nothing was sent on the connection so far (the
\* greeting's textToSpeech had failed)
InitSend ==
    /\ now = GREETING_DELAY_MS + QUIET_WINDOW_MS
    /\ connState = "open"
    /\ closeCalls = 0
    /\ activeConnections = {connectionId}
    /\ activeCalls = {"CA1"}
    /\ callSession = [callSid |-> "CA1", status |-> "CONNECTED", endTime |-> FALSE,
                      transcripts |-> <<[text |-> <<"a">>, timestamp |-> GREETING_DELAY_MS,
                                         speaker |-> "user"]>>,
                      aiResponses |-> 1]
    /\ streamSid = "MZ1"
    /\ connectionTimeout = NONE
    /\ deepgramConnection = 1
    /\ dgConns = <<NewDeepgram>>
    /\ conversationBuffer = <<"a", " ">>
    /\ lastSpeechTime = GREETING_DELAY_MS
    /\ debounceTimers = EmptyBag
    /\ greetings = <<[pc |-> "done", due |-> GREETING_DELAY_MS]>>
    /\ \E tc \in {<<>>, <<"hang_up_call">>} :
          orch = <<[NewOrch(<<"a">>, "CA1", 1) EXCEPT !.pc = "tts", !.text = "reply",
                                                        !.toolCalls = tc]>>
    /\ outFrames = <<>>
    /\ histArrays = << <<"user", "assistant">> >>
    /\ conversationHistory = SetHistory(<<>>, "CA1", 1)
    /\ starts = 1
    /\ fragments = 1
    /\ cleanups = 0
    /\ uncaught = FALSE
    /\ connections = <<>>
    /\ shutdowns = 0

NextSend ==
    \E r \in SendResults : TtsReturns(1, r)

SpecSend == InitSend /\ [][NextSend]_vars

(* ---------------------- properties of SpecSend ------------------------ *)
RECURSIVE DecodedPayloads(_)
\* the decoded payloads of a sequence of media frames, concatenated
DecodedPayloads(frames) ==
    IF frames = <<>> THEN <<>>
    ELSE Base64Decode(Head(frames).payload) \o DecodedPayloads(Tail(frames))

\* the frames on the connection are those of one send of o.audio
FramesOfOneSend(o) ==
    LET L == Len(o.audio)
        n == CeilDiv(L, CHUNK_SIZE)
    IN  /\ Len(outFrames) = n + 1
        /\ \A k \in 1..n :
              /\ outFrames[k].event = "media"
              /\ outFrames[k].streamSid = streamSid
              /\ Base64Decode(outFrames[k].payload)
                    = SubSeq(o.audio, (k - 1) * CHUNK_SIZE + 1,
                             IF k * CHUNK_SIZE < L THEN k * CHUNK_SIZE ELSE L)
        /\ outFrames[n + 1].event = "mark"
        /\ outFrames[n + 1].streamSid = streamSid
        /\ DecodedPayloads(SubSeq(outFrames, 1, n)) = o.audio

\* sendAudioToTwilio was called once and returned without throwing
SendReturned(o) ==
    /\ o.sendCalls = 1
    /\ o.pc # "fallback_tts"
    /\ o.resolvedBy # "sendfail"

CloseOrErrorCleansUp ==
    [][(OnClose \/ OnError) =>
          /\ connectionTimeout' = NONE
          /\ deepgramConnection' = NONE
          /\ deepgramConnection # NONE =>
                /\ dgConns'[deepgramConnection].readyState # "open"
                /\ dgConns[deepgramConnection].readyState # "closed" =>
                      dgConns'[deepgramConnection].closeRequests
                          = dgConns[deepgramConnection].closeRequests + 1
          /\ connectionId \notin activeConnections'
          /\ callSession # NoSession => callSession.callSid \notin activeCalls'
      ]_vars

\* C11 witness: the connection closed while its session was active; the one
\* cleanup run asked the speech-recognition connection to close and emptied
\* both registries.
CloseCleanedActiveSession ==
    /\ connState = "closed"
    /\ cleanups = 1
    /\ callSession # NoSession
    /\ callSession.status = "CONNECTED"
    /\ dgConns # <<>>
    /\ dgConns[1].closeRequests = 1
    /\ deepgramConnection = NONE
    /\ connectionTimeout = NONE
    /\ activeConnections = {}
    /\ activeCalls = {}

\* C12: a CallSession created by a start frame has status ENDED and its end
\* time set whenever its connection has closed, and right after every stop
\* frame the connection handled.
SessionEndedOnStopOrClose ==
    /\ []((callSession # NoSession /\ connState = "closed") =>
             (callSession.status = "ENDED" /\ callSession.endTime))
    /\ [][\A f \in StopFrames :
             (OnMessage(f, TRUE) /\ callSession # NoSession) =>
                 (callSession'.status = "ENDED" /\ callSession'.endTime)]_vars

(* ------------------ more properties of SpecOrch ----------------------- *)
\* C13: once a session has ended, by a stop frame or by the close of its
\* connection, the AI service holds no conversation history for the
\* session's call identifier, also when a processConversation of the session
\* was still in flight at that moment.
HistoryClearedAtSessionEnd ==
    (callSession # NoSession /\ (callSession.status = "ENDED" \/ connState = "closed"))
        => callSession.callSid \notin DOMAIN conversationHistory

(* ---------------- SpecHistory: the AI service's history --------------- *)
\* messages in a stored history before a call of the AI service
MaxHistory == 21
\* arrays the AI service allocates in one behaviour
MaxArrays == 2

\* the array a call for callId works on: the stored one, or a fresh []
HistoryOf(callId) ==
    IF callId \in DOMAIN conversationHistory
    THEN [h |-> conversationHistory[callId], arrs |-> histArrays]
    ELSE [h |-> Len(histArrays) + 1, arrs |-> Append(histArrays, <<>>)]

\* AIService.generateResponseWithTools called with no other call in flight:
\* both messages are pushed onto the array read at the start and the array
\* is stored; a failing request leaves the history alone
GenerateResponseWithTools(callId, ok) ==
    /\ LET r == HistoryOf(callId)
       IN  /\ Len(r.arrs) <= MaxArrays
           /\ Len(r.arrs[r.h]) < MaxHistory
           /\ IF ok
              THEN /\ histArrays' = [r.arrs EXCEPT ![r.h] = @ \o <<"user", "assistant">>]
                   /\ conversationHistory' = SetHistory(conversationHistory, callId, r.h)
              ELSE UNCHANGED aiVars
    /\ UNCHANGED <<now, connVars, uncaught, srvVars, sessVars, startVars, speechVars, orch, outFrames>>

\* AIService.generateResponse called with no other call in flight: the user
\* message is pushed before the request; after it the reply is pushed and the
\* last 20 messages are stored as a new array
GenerateResponse(callId, ok) ==
    /\ LET r        == HistoryOf(callId)
           withUser == [r.arrs EXCEPT ![r.h] = Append(@, "user")]
           full     == Append(withUser[r.h], "assistant")
       IN  /\ Len(r.arrs) <= MaxArrays
           /\ Len(r.arrs[r.h]) < MaxHistory
           /\ IF ok
              THEN /\ Len(r.arrs) < MaxArrays
                   /\ histArrays' = Append([withUser EXCEPT ![r.h] = full],
                                           LastMessages(full))
                   /\ conversationHistory' =
                          SetHistory(conversationHistory, callId, Len(r.arrs) + 1)
              ELSE /\ histArrays' = withUser
                   /\ UNCHANGED conversationHistory
    /\ UNCHANGED <<now, connVars, uncaught, srvVars, sessVars, startVars, speechVars, orch, outFrames>>

NextHistory ==
    \/ \E c \in CallSids, ok \in BOOLEAN : GenerateResponseWithTools(c, ok)
    \/ \E c \in CallSids, ok \in BOOLEAN : GenerateResponse(c, ok)

SpecHistory == Init /\ [][NextHistory]_vars

\* C14: the history stored for a call identifier never holds more than 20
\* messages.
HistoryCapped ==
    \A c \in DOMAIN conversationHistory :
        Len(histArrays[conversationHistory[c]]) <= HISTORY_CAP

(* ---------------- failure handling in processConversation ------------- *)
\* C15: a failing AI request makes processConversation synthesize the AI
\* service's fixed apology text; a reply that cannot be recorded and a
\* failing textToSpeech of the reply make it synthesize its own fixed
\* apology.  Whatever the apology's textToSpeech and send do (audio sent,
\* textToSpeech throws, sendUTF throws), processConversation then returns:
\* the apology is sent at most once, the buffer of the debouncer is cleared
\* and CallSession, stream identifier, connection and speech-recognition
\* connection are as before, so the next utterance can be processed.
FailureEndsInApology ==
    [][\A i \in DOMAIN orch :
          /\ AiReturns(i, [kind |-> "apiError", toolCalls |-> <<>>]) =>
                (orch'[i].pc = "tts" /\ orch'[i].text = "ai_apology")
          /\ AiReturns(i, [kind |-> "noText", toolCalls |-> <<>>]) =>
                (orch'[i].pc = "fallback_tts" /\ orch'[i].text = "apology")
          /\ (\E r \in TtsResults : ~r.ok /\ TtsReturns(i, r)) =>
                (orch'[i].pc = "fallback_tts" /\ orch'[i].text = "apology")
          /\ (orch[i].pc = "fallback_tts" /\ orch'[i].pc # "fallback_tts") =>
                /\ orch'[i].pc = "done"
                /\ orch'[i].text = "apology"
                /\ orch'[i].sendCalls \in {orch[i].sendCalls, orch[i].sendCalls + 1}
                /\ conversationBuffer' = <<>>
                /\ UNCHANGED <<connVars, uncaught, srvVars, sessVars, startVars>>
      ]_vars

\* C15 witness: the reply's textToSpeech failed and so did the apology's;
\* processConversation has returned on an open connection with its session
\* in place and nothing was sent for the utterance.
ApologyFailureSwallowed ==
    /\ orch # <<>>
    /\ orch[1].pc = "done"
    /\ orch[1].text = "apology"
    /\ orch[1].sendCalls = 0
    /\ orch[1].aiRequests = 1
    /\ callSession.aiResponses = 1
    /\ connState = "open"
    /\ callSession # NoSession
    /\ streamSid # NULL
    /\ conversationBuffer = <<>>

(* ------------------ the mark wait under fair timers ------------------- *)
\* SpecOrch with the scheduling of timers: time passes until the next timer
\* is due, and the callback of a due mark timer runs
SpecOrchFair ==
    SpecOrch /\ WF_vars(WaitForTimer) /\ WF_vars(MarkTimeoutFires(1))

\* C16: an orchestration that waits for its PendingAck is never found
\* waiting after the deadline, 10 s after the wait began, and under fair
\* timers every wait ends with the code after the await entered (the tool
\* loop), with or without an echo, also when nothing could be sent because
\* the connection was no longer open.
MarkWaitEnds ==
    /\ [](\A i \in DOMAIN orch :
             orch[i].pc = "mark_wait" =>
                 /\ orch[i].timeout = orch[i].markName + MARK_TIMEOUT_MS
                 /\ now <= orch[i].timeout)
    /\ (orch[1].pc = "mark_wait") ~> (orch[1].pc # "mark_wait" /\ orch[1].contRuns = 1)

\* C16 witness: nothing was sent because the connection had closed, no echo
\* came, and the timer let the orchestration proceed at the deadline.
ProceededAtDeadlineWithoutEcho ==
    /\ orch[1].resolvedBy = "timeout"
    /\ orch[1].contRuns = 1
    /\ orch[1].echo = NONE
    /\ ~orch[1].sent
    /\ connState = "closed"
    /\ now = orch[1].markName + MARK_TIMEOUT_MS

(* ------------------- sends on a connection not open ------------------- *)
\* C17: while the connection is not in the open state (or no stream
\* identifier is known) no step puts a frame on the connection, and a call
\* of sendAudioToTwilio made in such a step returns without raising: the
\* caller goes on as after a send (it returns, or waits for the mark) and
\* neither its catch block nor the failure handler of the send runs.
SendDroppedWhenNotOpen ==
    [][(connState # "open" \/ streamSid = NULL) =>
          /\ outFrames' = outFrames
          /\ \A i \in DOMAIN orch :
                orch'[i].sendCalls = orch[i].sendCalls + 1 =>
                    /\ orch'[i].pc \in {"done", "mark_wait"}
                    /\ orch'[i].text = orch[i].text
                    /\ orch'[i].resolvedBy = orch[i].resolvedBy
                    /\ orch'[i].sent = orch[i].sent
      ]_vars

\* C17 witness: the reply without tool calls was synthesized after the
\* connection had closed; the send put nothing on the connection (the two
\* frames of the greeting are all there is) and processConversation
\* returned normally.
ReplyDroppedOnClosedConnection ==
    /\ connState = "closed"
    /\ orch[1].pc = "done"
    /\ orch[1].text = "reply"
    /\ orch[1].toolCalls = <<>>
    /\ orch[1].sendCalls = 1
    /\ ~orch[1].sent
    /\ Len(outFrames) = 2

(* ------------------- frames without an effect ------------------------- *)
\* C18: handling a connected frame, a mark frame, a frame with an unknown
\* event, a malformed frame, or a media frame before the start frame leaves
\* the CallSession, the stream identifier, the idle timer, the
\* speech-recognition connection (its reference, its state and the audio
\* forwarded to it), the utterance buffer, activeConnections and activeCalls
\* as they were.
FramesWithoutEffect ==
    [][\A f \in PlainFrames({"connected", "other", "malformed"}) \cup MarkFrames
                \cup (IF streamSid = NULL THEN PlainFrames({"media"}) ELSE {}) :
          OnMessage(f, TRUE) =>
              UNCHANGED <<callSession, streamSid, connectionTimeout,
                          deepgramConnection, dgConns, conversationBuffer,
                          activeConnections, activeCalls>>
      ]_vars

\* C18 witness: an open connection before its start frame, the idle timer
\* pending and no speech-recognition connection yet, on which a media frame
\* and a malformed frame are handled.
MediaBeforeStartHandled ==
    /\ streamSid = NULL
    /\ callSession = NoSession
    /\ deepgramConnection = NONE
    /\ connectionTimeout # NONE
    /\ connState = "open"
    /\ now > 0
    /\ ENABLED OnMessage([event |-> "media"], TRUE)
    /\ ENABLED OnMessage([event |-> "malformed"], TRUE)

(* ------------------------ failing tool calls -------------------------- *)
\* a tool result of o reports a failure
HasFailedTool(o) ==
    \E k \in DOMAIN o.toolResults : ~o.toolResults[k].success

\* a hang_up_call of o succeeded
HungUp(o) ==
    \E k \in DOMAIN o.toolResults :
        o.toolResults[k].tool = "hang_up_call" /\ o.toolResults[k].success

\* C19 (as amended): a failing tool call yields the result success = false
\* and does not end the tool loop: the next tool call of the array is
\* executed, or after the last one the follow-up reply is requested with the
\* failure among the results; a processConversation that has returned with
\* a failed tool call and without a successful hang_up_call has executed
\* every tool call of the reply and requested the follow-up reply.
FailedToolDoesNotAbort ==
    /\ [](\A i \in DOMAIN orch :
             (orch[i].pc = "done" /\ HasFailedTool(orch[i]) /\ ~HungUp(orch[i])) =>
                 /\ Len(orch[i].toolResults) = Len(orch[i].toolCalls)
                 /\ orch[i].aiRequests = 2)
    /\ [][\A i \in DOMAIN orch :
             ToolReturns(i, FALSE) =>
                 /\ orch'[i].toolResults =
                        Append(orch[i].toolResults,
                               [tool |-> orch[i].toolCalls[orch[i].toolIdx],
                                success |-> FALSE])
                 /\ IF orch[i].toolIdx < Len(orch[i].toolCalls)
                    THEN /\ orch'[i].pc = "tool"
                         /\ orch'[i].toolIdx = orch[i].toolIdx + 1
                    ELSE /\ orch'[i].pc = "followup_ai"
                         /\ orch'[i].aiRequests = orch[i].aiRequests + 1
         ]_vars

\* C19 as stated: after a failed tool call every tool call of the array is
\* executed and the follow-up reply is requested.
FailedToolAlwaysFollowedUp ==
    \A i \in DOMAIN orch :
        (orch[i].pc = "done" /\ HasFailedTool(orch[i])) =>
            /\ Len(orch[i].toolResults) = Len(orch[i].toolCalls)
            /\ orch[i].aiRequests = 2

\* C19 witness: an unknown tool failed, the transfer after it was executed
\* and succeeded, and the follow-up reply was requested and spoken.
FollowUpAfterFailedTool ==
    /\ orch[1].pc = "done"
    /\ orch[1].toolCalls = <<"lookup_weather", "transfer_call">>
    /\ orch[1].toolResults = <<[tool |-> "lookup_weather", success |-> FALSE],
                               [tool |-> "transfer_call", success |-> TRUE]>>
    /\ orch[1].aiRequests = 2
    /\ orch[1].sendCalls = 2
    /\ orch[1].text = "reply"

ReplySendCalled(o) == o.audio # <<>>

\* C21: an orchestration whose AI reply has no tool calls (no toolCalls field
\* or an empty array) never has a PendingAck (no mark name, no listener, no
\* deadline, nothing resolved, no code after an await of it), executes no
\* tool and issues no second AI request; sendAudioToTwilio is called once
\* for the reply's audio (a second call can only be the apology after a
\* throwing send), and when processConversation has returned after a send
\* that went through, the frames on the wire after the greeting's are
\* exactly the frames of that one send.
NoToolCallsSendOnce ==
    \A i \in DOMAIN orch :
        orch[i].pc # "ai" /\ orch[i].toolCalls = <<>> =>
          /\ orch[i].markName = NONE
          /\ ~orch[i].listener
          /\ orch[i].timeout = NONE
          /\ orch[i].resolvedBy = "none"
          /\ orch[i].contRuns = 0
          /\ orch[i].pc \notin {"mark_wait", "tool", "followup_ai", "followup_tts"}
          /\ orch[i].toolResults = <<>>
          /\ orch[i].aiRequests = 1
          /\ orch[i].sendCalls <= (IF orch[i].text = "apology" THEN 2 ELSE 1)
          /\ (orch[i].text # "apology" =>
                orch[i].sendCalls = (IF ReplySendCalled(orch[i]) THEN 1 ELSE 0))
          /\ (orch[i].pc = "done" /\ orch[i].text # "apology" =>
                ReplySendCalled(orch[i]))
          /\ (orch[i].pc = "done" /\ orch[i].text # "apology" /\ orch[i].sent =>
                outFrames = SendFrames(GreetingBuffer, "MZ1", GREETING_DELAY_MS)
                            \o SendFrames(orch[i].audio, streamSid,
                                          outFrames[Len(outFrames)].name))

\* C21 witness: processConversation returned after a reply without tool
\* calls whose audio went out with its trailing mark, once
PlainReplySentOnce ==
    /\ orch[1].pc = "done"
    /\ orch[1].text = "reply"
    /\ orch[1].toolCalls = <<>>
    /\ orch[1].sent
    /\ orch[1].sendCalls = 1
    /\ orch[1].markName = NONE
    /\ outFrames[Len(outFrames)].event = "mark"

(* ------------------------ the follow-up reply ------------------------- *)
\* C22: an orchestration requests at most two AI replies, and the second
\* one only after every tool call of the reply has returned without a
\* successful hang_up_call; the step in which the last tool call returns
\* (and no hang_up_call succeeded) requests the follow-up reply; when that
\* reply arrives it is synthesized, and when the synthesis returns the audio
\* is sent by one call of sendAudioToTwilio without a mark name and
\* processConversation returns: no listener is registered, no deadline is
\* set, the PendingAck of the first send is left as it was and the
\* orchestration does not wait for a mark again.  A failing request, a
\* failing synthesis and a throwing send end in the apology of the catch
\* block instead.
FollowUpOnceWithoutAck ==
    /\ [](\A i \in DOMAIN orch :
            /\ orch[i].aiRequests <= 2
            /\ orch[i].aiRequests = 2 =>
                 /\ orch[i].toolCalls # <<>>
                 /\ Len(orch[i].toolResults) = Len(orch[i].toolCalls)
                 /\ ~HungUp(orch[i])
                 /\ orch[i].contRuns = 1
            /\ orch[i].pc \in {"followup_ai", "followup_tts"} =>
                 /\ orch[i].aiRequests = 2
                 /\ ~orch[i].listener
                 /\ orch[i].resolvedBy # "none"
            /\ (orch[i].pc = "done" /\ orch[i].toolCalls # <<>>
                  /\ ~HungUp(orch[i]) /\ orch[i].text # "apology") =>
                 orch[i].aiRequests = 2)
    /\ [][\A i \in DOMAIN orch :
            /\ (orch[i].pc = "tool" /\ orch'[i].pc # "tool" /\ ~HungUp(orch'[i])) =>
                 /\ orch'[i].pc = "followup_ai"
                 /\ orch'[i].aiRequests = 2
                 /\ Len(orch'[i].toolResults) = Len(orch[i].toolCalls)
            /\ (orch[i].pc = "followup_ai" /\ orch'[i].pc # "followup_ai") =>
                 /\ orch'[i].pc \in {"followup_tts", "fallback_tts"}
                 /\ orch'[i].aiRequests = 2
                 /\ outFrames' = outFrames
            /\ (orch[i].pc = "followup_tts" /\ orch'[i].pc # "followup_tts") =>
                 /\ orch'[i].pc \in {"done", "fallback_tts"}
                 /\ orch'[i].aiRequests = 2
                 /\ orch'[i].sendCalls \in {orch[i].sendCalls, orch[i].sendCalls + 1}
                 /\ orch'[i].pc = "done" =>
                      /\ orch'[i].sendCalls = orch[i].sendCalls + 1
                      /\ orch'[i].markName = orch[i].markName
                      /\ orch'[i].resolvedBy = orch[i].resolvedBy
                      /\ orch'[i].contRuns = orch[i].contRuns
                      /\ orch'[i].timeout = orch[i].timeout
                      /\ ~orch'[i].listener
                      /\ IF connState = "open"
                         THEN \E b \in TtsBuffers :
                                outFrames' = outFrames \o SendFrames(b, streamSid, now)
                         ELSE outFrames' = outFrames
         ]_vars

\* C22 witness: both tool calls of a reply returned, neither a successful
\* hang_up_call, and the follow-up reply was requested, synthesized and sent
\* after them; the orchestration has returned
FollowUpSpoken ==
    /\ orch[1].pc = "done"
    /\ orch[1].text = "reply"
    /\ Len(orch[1].toolCalls) = 2
    /\ Len(orch[1].toolResults) = 2
    /\ ~HungUp(orch[1])
    /\ orch[1].resolvedBy = "echo"
    /\ orch[1].aiRequests = 2
    /\ orch[1].sendCalls = 2
    /\ connState = "open"
    /\ Len(outFrames) = 3 * Len(SendFrames(GreetingBuffer, "MZ1", 0))

(* ------------------------- the tool loop ------------------------------ *)
\* C23: the tool calls of a reply run in array order and one at a time: the
\* k-th ToolResult is the result of the k-th tool call of the array, the
\* call in flight is the one after the calls that have returned (call k+1 is
\* in flight only when exactly k results were collected), no call is in
\* flight before the loop or after it, and the results only grow by the
\* result of the call in flight, one per returning call.
ToolCallsInArrayOrder ==
    /\ [](\A i \in DOMAIN orch :
            LET o == orch[i]
            IN  /\ Len(o.toolResults) <= Len(o.toolCalls)
                /\ \A k \in DOMAIN o.toolResults : o.toolResults[k].tool = o.toolCalls[k]
                /\ o.pc = "tool" =>
                     /\ o.toolIdx \in 1..Len(o.toolCalls)
                     /\ Len(o.toolResults) = o.toolIdx - 1
                /\ o.pc \in {"ai", "tts", "mark_wait"} =>
                     o.toolIdx = 0 /\ o.toolResults = <<>>
                /\ o.pc # "tool" => Len(o.toolResults) = o.toolIdx)
    /\ [][\A i \in DOMAIN orch :
            \/ orch'[i].toolResults = orch[i].toolResults
            \/ /\ orch[i].pc = "tool"
               /\ Len(orch'[i].toolResults) = Len(orch[i].toolResults) + 1
               /\ SubSeq(orch'[i].toolResults, 1, Len(orch[i].toolResults))
                     = orch[i].toolResults
               /\ orch'[i].toolResults[Len(orch'[i].toolResults)].tool
                     = orch[i].toolCalls[orch[i].toolIdx]
               /\ orch'[i].pc = "tool" => orch'[i].toolIdx = orch[i].toolIdx + 1
         ]_vars

\* C23 witness: the second tool call of a reply is in flight and the first
\* one has returned its result
SecondToolAfterFirstResult ==
    /\ orch[1].pc = "tool"
    /\ orch[1].toolIdx = 2
    /\ Len(orch[1].toolResults) = 1
    /\ orch[1].toolResults[1].tool = orch[1].toolCalls[1]
    /\ orch[1].toolCalls[1] # orch[1].toolCalls[2]

(* ----------------------- SIGTERM and SIGINT --------------------------- *)
\* accepted connections in SpecShutdown
MaxConnections == 2
\* runs of the signal handler
MaxShutdowns == 1

\* the call identifiers of the start frames in SpecShutdown
ServerCallSids == {"CA1", "CA2"}

\* the request handler accepts a connection: its identifier is
\* Date.now().toString()
NewConnection ==
    [id |-> now, state |-> "open", callSid |-> NULL,
     closeRequested |-> FALSE, closeThrew |-> FALSE]

\* the value state.activeConnections holds under a key: the connection that
\* was set last under it
Handle(id) ==
    CHOOSE k \in DOMAIN connections :
        /\ connections[k].id = id
        /\ \A j \in DOMAIN connections : connections[j].id = id => j <= k

\* the server is listening and has accepted no connection yet
InitServer ==
    /\ now = 0
    /\ connState = "closed"
    /\ closeCalls = 0
    /\ activeConnections = {}
    /\ activeCalls = {}
    /\ callSession = NoSession
    /\ streamSid = NULL
    /\ connectionTimeout = NONE
    /\ deepgramConnection = NONE
    /\ dgConns = <<>>
    /\ conversationBuffer = <<>>
    /\ lastSpeechTime = 0
    /\ debounceTimers = EmptyBag
    /\ greetings = <<>>
    /\ orch = <<>>
    /\ outFrames = <<>>
    /\ histArrays = <<>>
    /\ conversationHistory = <<>>
    /\ starts = 0
    /\ fragments = 0
    /\ cleanups = 0
    /\ uncaught = FALSE
    /\ connections = <<>>
    /\ shutdowns = 0

\* what the actions of SpecShutdown leave alone
sessionVars ==
    <<connVars, callSession, streamSid, connectionTimeout, deepgramConnection,
      dgConns, speechVars, greetings, orch, outFrames, aiVars, starts, cleanups,
      uncaught>>

\* wsServer.on('request') accepts a connection and registers it
AcceptConnection ==
    /\ shutdowns = 0
    /\ Len(connections) < MaxConnections
    /\ connections' = Append(connections, NewConnection)
    /\ activeConnections' = activeConnections \cup {now}
    /\ UNCHANGED <<now, activeCalls, shutdowns, sessionVars>>

\* the start frame of connection k: its CallSession is registered
StartOn(k, callSid) ==
    /\ connections[k].state # "closed"
    /\ connections[k].callSid = NULL
    /\ \A j \in DOMAIN connections : connections[j].callSid # callSid
    /\ connections' = [connections EXCEPT ![k].callSid = callSid]
    /\ activeCalls' = activeCalls \cup {callSid}
    /\ UNCHANGED <<now, activeConnections, shutdowns, sessionVars>>

\* the close event of connection k: cleanup deletes the connection's key and
\* the key of its CallSession
CloseOf(k) ==
    /\ connections[k].state # "closed"
    /\ connections' = [connections EXCEPT ![k].state = "closed"]
    /\ activeConnections' = activeConnections \ {connections[k].id}
    /\ activeCalls' = IF connections[k].callSid # NULL
                      THEN activeCalls \ {connections[k].callSid}
                      ELSE activeCalls
    /\ UNCHANGED <<now, shutdowns, sessionVars>>

\* the handler of SIGTERM and SIGINT: close() on every value of
\* state.activeConnections; closing the connections under the keys in threw
\* throws, which is caught and logged
Shutdown(threw) ==
    /\ shutdowns < MaxShutdowns
    /\ threw \subseteq activeConnections
    /\ shutdowns' = shutdowns + 1
    /\ connections' =
         [k \in DOMAIN connections |->
            LET c == connections[k]
            IN  IF c.id \in activeConnections /\ Handle(c.id) = k
                THEN IF c.id \in threw
                     THEN [c EXCEPT !.closeThrew = TRUE]
                     ELSE [c EXCEPT !.closeRequested = TRUE,
                                    !.state = IF @ = "open" THEN "closing" ELSE @]
                ELSE c]
    /\ UNCHANGED <<now, activeConnections, activeCalls, sessionVars>>

\* SpecShutdown: the server accepts connections, their calls start and end,
\* and a termination signal arrives
NextShutdown ==
    \/ AcceptConnection
    \/ \E k \in DOMAIN connections, c \in ServerCallSids : StartOn(k, c)
    \/ \E k \in DOMAIN connections : CloseOf(k)
    \/ \E t \in SUBSET activeConnections : Shutdown(t)
    \/ Tick

SpecShutdown == InitServer /\ [][NextShutdown]_vars

\* C24 as stated: after the signal handler has run without a throwing
\* close(), and the close events of the connections it closed have been
\* handled, activeConnections and activeCalls are empty.
ShutdownEmptiesRegistries ==
    (/\ shutdowns > 0
     /\ \A k \in DOMAIN connections :
          /\ ~connections[k].closeThrew
          /\ connections[k].closeRequested => connections[k].state = "closed")
    => activeConnections = {} /\ activeCalls = {}

(* ------------------ fragments and utterances -------------------------- *)
\* the utterances passed to processConversation so far, in call order, each
\* followed by the blank the buffer puts after a fragment
RECURSIVE JoinUtterances(_)
JoinUtterances(os) ==
    IF os = <<>> THEN <<>>
    ELSE JoinUtterances(SubSeq(os, 1, Len(os) - 1)) \o os[Len(os)].userMessage \o <<" ">>

IsPrefix(s, t) ==
    Len(s) <= Len(t) /\ SubSeq(t, 1, Len(s)) = s

\* C25 as stated: every fragment of the transcript log is part of exactly
\* one utterance passed to processConversation: the utterances so far, put
\* one after the other, are a beginning of the logged fragments (none is
\* submitted twice), and once no quiet-window timer is pending and the
\* buffer is empty they are all of them (none is dropped).
FragmentsSubmittedOnce ==
    /\ IsPrefix(JoinUtterances(orch), JoinFragments(callSession.transcripts))
    /\ (debounceTimers = EmptyBag /\ conversationBuffer = <<>>) =>
          JoinUtterances(orch) = JoinFragments(callSession.transcripts)

(* --------------------- detaching the mark listener -------------------- *)
\* C26 as stated: a PendingAck that has been resolved, by echo or by
\* deadline, has no listener registered any more, and resolve() was called
\* while the listener was still registered: the listener is detached only
\* after the completion was signalled.
ListenerDetachedAfterResolve ==
    \A i \in DOMAIN orch :
        orch[i].resolvedBy \in {"echo", "timeout"} =>
            /\ ~orch[i].listener
            /\ orch[i].listenerAtResolve

(* ------------------- the deadline after an echo ----------------------- *)
\* C27 as stated: once a PendingAck has been resolved by its echo, the
\* callback of its 10 s timer does not run.
EchoCancelsDeadline ==
    [][\A i \in DOMAIN orch :
          orch[i].resolvedBy = "echo" => ~MarkTimeoutFires(i)]_vars

(* ---------------- the listener and the mark frame --------------------- *)
\* C28: the listener and the deadline of a PendingAck exist when the mark
\* frame of its send goes out: in every state in which a mark frame with the
\* name of an unresolved PendingAck has been sent, the markHandler of that
\* PendingAck is registered and its timer is pending, and an orchestration
\* that waits for its mark always has both; an inbound mark frame with the
\* name of an unresolved PendingAck always reaches the listener and resolves
\* the PendingAck as an echo.
ListenerBeforeMarkFrame ==
    /\ [](\A i \in DOMAIN orch :
            /\ (/\ orch[i].markName # NONE
                /\ orch[i].resolvedBy = "none"
                /\ orch[i].markName \in SentMarkNames) =>
                   orch[i].listener /\ orch[i].timeout # NONE
            /\ orch[i].pc = "mark_wait" =>
                 /\ orch[i].listener
                 /\ orch[i].timeout # NONE
                 /\ orch[i].markName # NONE
                 /\ orch[i].resolvedBy = "none"
            /\ (orch[i].sent /\ orch[i].markName # NONE) =>
                 orch[i].markName \in SentMarkNames)
    /\ [][\A i \in DOMAIN orch : \A f \in MarkFrames :
            (/\ OnMessage(f, TRUE)
             /\ orch[i].markName # NONE
             /\ orch[i].resolvedBy = "none"
             /\ f.name = orch[i].markName) =>
                /\ orch'[i].resolvedBy = "echo"
                /\ orch'[i].echo = orch[i].markName
                /\ orch'[i].pc = "tool"]_vars

\* C28 witness: the mark frame of a reply with tool calls is on the wire,
\* its PendingAck is unresolved and the listener and the timer are in place
MarkSentWithListener ==
    /\ orch[1].pc = "mark_wait"
    /\ orch[1].sent
    /\ orch[1].markName \in SentMarkNames
    /\ orch[1].listener
    /\ orch[1].timeout = orch[1].markName + MARK_TIMEOUT_MS
    /\ ENABLED OnMessage([event |-> "mark", name |-> orch[1].markName], TRUE)

(* --------------------------- mark names ------------------------------- *)
\* the positions of the mark frames among the frames sent
MarkPositions == {k \in DOMAIN outFrames : outFrames[k].event = "mark"}

\* C29 as stated: the mark frames sent in a session have pairwise different
\* names, and the name of a PendingAck is the name of at most one of them,
\* so that an echo with that name can only be the echo of its own send.
MarkNamesUnique ==
    /\ \A j, k \in MarkPositions :
          j # k => outFrames[j].name # outFrames[k].name
    /\ \A i \in DOMAIN orch :
          orch[i].markName # NONE =>
              Cardinality({k \in MarkPositions :
                              outFrames[k].name = orch[i].markName}) <= 1

(* ------------------- the idle timer after start ----------------------- *)
\* C30: handling a start frame leaves no idle timer pending; the timer is
\* never set again once it is gone, so it is cancelled at most once; and
\* after a start frame was handled the callback of the idle timer does not
\* run and connection.close() is not called, whatever the clock shows.
IdleTimerCancelledAtStart ==
    /\ [](starts > 0 => connectionTimeout = NONE)
    /\ [][connectionTimeout = NONE => connectionTimeout' = NONE]_vars
    /\ [][\A f \in StartFrames, dgOk \in BOOLEAN :
            OnMessage(f, dgOk) => connectionTimeout' = NONE]_vars
    /\ [][starts > 0 => /\ ~ConnectionTimeoutFires
                        /\ closeCalls' = closeCalls
                        /\ connState' \in {connState, "closed"}]_vars

\* C30 witness: the start frame was handled while the idle timer was still
\* pending, and the call is active at the instant the timer was set for
ActiveAtIdleDeadline ==
    /\ starts = 1
    /\ callSession # NoSession
    /\ callSession.status = "CONNECTED"
    /\ connectionTimeout = NONE
    /\ now >= IDLE_TIMEOUT_MS
    /\ connState = "open"
    /\ closeCalls = 0
    /\ cleanups = 0
    /\ connectionId \in activeConnections

(* -------------------------- the response log -------------------------- *)
\* C31 as stated: every AI reply generated for the session adds one entry
\* to callSession.aiResponses: the initial reply of an utterance when
\* generateResponseWithTools returns it, and the follow-up reply when
\* generateResponse returns it.
ResponseLoggedPerReply ==
    [][\A i \in DOMAIN orch :
          /\ \A r \in AiReplies :
                (AiReturns(i, r) /\ r.kind = "ok") =>
                    callSession'.aiResponses = callSession.aiResponses + 1
          /\ FollowUpAiReturns(i, TRUE) =>
                callSession'.aiResponses = callSession.aiResponses + 1]_vars

(* ------------------------ SpecTranscript ------------------------------ *)
\* SpecTranscript: a started session receives transcript fragments of every
\* kind; the quiet-window timers flush them, and the replies, which carry no
\* tool calls, are synthesized and sent
PlainReplies == {[kind |-> "ok", toolCalls |-> <<>>]}

NextTranscript ==
    \/ \E h \in DOMAIN dgConns, t \in FragmentTexts, f \in BOOLEAN : OnTranscript(h, t, f)
    \/ \E d \in BagToSet(debounceTimers) : DebounceTimerFires(d)
    \/ \E i \in DOMAIN orch, r \in PlainReplies : AiReturns(i, r)
    \/ \E i \in DOMAIN orch, r \in TtsNoFault : TtsReturns(i, r)
    \/ Tick
    \/ WaitForTimer

SpecTranscript == InitStarted /\ [][NextTranscript]_vars

\* C32: a fragment that is interim or blank changes neither the buffer, the
\* transcript log, the time of the last speech nor the set of quiet-window
\* timers; a final non-blank fragment appends one entry with its text and
\* the speaker "user" to the log, its text and a blank to the buffer, and
\* starts one timer; in every step the old log is the beginning of the new
\* one, which is at most one entry longer, and every entry has the speaker
\* "user".
TranscriptLogAppendOnly ==
    /\ [](\A k \in DOMAIN callSession.transcripts :
             /\ callSession.transcripts[k].speaker = "user"
             /\ Trim(callSession.transcripts[k].text) # <<>>)
    /\ [][/\ Len(callSession'.transcripts) \in
                {Len(callSession.transcripts), Len(callSession.transcripts) + 1}
          /\ SubSeq(callSession'.transcripts, 1, Len(callSession.transcripts))
                = callSession.transcripts]_vars
    /\ [][\A h \in DOMAIN dgConns, t \in FragmentTexts, f \in BOOLEAN :
            OnTranscript(h, t, f) =>
              IF f /\ Trim(t) # <<>>
              THEN /\ callSession'.transcripts =
                         Append(callSession.transcripts,
                                [text |-> t, timestamp |-> now, speaker |-> "user"])
                   /\ conversationBuffer' = conversationBuffer \o t \o <<" ">>
                   /\ debounceTimers' =
                         debounceTimers (+) SetToBag({now + QUIET_WINDOW_MS})
              ELSE UNCHANGED <<conversationBuffer, callSession, lastSpeechTime,
                               debounceTimers>>]_vars

\* C32 witness: two final fragments are in the log in arrival order, with
\* their timers pending, and an interim or a blank fragment can arrive
TwoFragmentsLogged ==
    /\ Len(callSession.transcripts) = 2
    /\ callSession.transcripts[1].text = <<"a">>
    /\ callSession.transcripts[2].text = <<"b">>
    /\ callSession.transcripts[1].timestamp < callSession.transcripts[2].timestamp
    /\ conversationBuffer = <<"a", " ", "b", " ">>
    /\ BagCardinality(debounceTimers) = 2
    /\ ENABLED OnTranscript(1, <<" ">>, TRUE)
    /\ ENABLED OnTranscript(1, <<"a">>, FALSE)

(* ----------------- a timer on an empty buffer ------------------------- *)
\* C33: when the callback of a quiet-window timer runs while the buffer is
\* empty or blank, processConversation is not called and the buffer stays
\* as it is.
EmptyBufferNotFlushed ==
    [][\A d \in BagToSet(debounceTimers) :
          (DebounceTimerFires(d) /\ Trim(conversationBuffer) = <<>>) =>
              /\ orch' = orch
              /\ conversationBuffer' = conversationBuffer
              /\ histArrays' = histArrays]_vars

\* C33 witness: the fragment "b" arrived while "a" was being processed and
\* was cleared with the buffer when that processing returned; the timer of
\* "b" has fired since, on the empty buffer, and no second
\* processConversation was called
TimerFiredOnEmptyBuffer ==
    /\ Len(callSession.transcripts) = 2
    /\ callSession.transcripts[2].timestamp - callSession.transcripts[1].timestamp
          >= QUIET_WINDOW_MS
    /\ now >= callSession.transcripts[2].timestamp + QUIET_WINDOW_MS
    /\ debounceTimers = EmptyBag
    /\ conversationBuffer = <<>>
    /\ Len(orch) = 1
    /\ orch[1].userMessage = <<"a">>
    /\ orch[1].pc = "done"

(* --------------------------- after stop ------------------------------- *)
\* C34 as stated: once the stop frame of a session has been handled (the
\* session is ENDED), no step sends a frame, calls processConversation,
\* requests an AI reply or starts a tool call.
QuietAfterStop ==
    [][callSession.status = "ENDED" =>
          /\ outFrames' = outFrames
          /\ Len(orch') = Len(orch)
          /\ \A i \in DOMAIN orch :
                /\ orch'[i].aiRequests = orch[i].aiRequests
                /\ orch'[i].toolIdx = orch[i].toolIdx]_vars

(* ------------------- tool calls and the reply's audio ----------------- *)
\* C35 as stated: a tool call of a reply has started only if every media
\* frame of the reply's audio and its mark frame went out before.
ToolCallsOnlyAfterAudioSent ==
    \A i \in DOMAIN orch :
        orch[i].toolIdx > 0 =>
            /\ orch[i].sent
            /\ orch[i].markName \in SentMarkNames

(* ------------------- sessions and their connection -------------------- *)
\* C36 as stated: in every reachable state each call registered in
\* activeCalls belongs to a connection that still has its entry in
\* activeConnections.
SessionEntryHasConnectionEntry ==
    activeCalls # {} => connectionId \in activeConnections

(* ------------------- connection identifiers --------------------------- *)
\* C37 as stated: every accepted connection that has not been cleaned up
\* has its own entry in activeConnections, under an identifier no other
\* such connection has.
LiveConnectionsHaveOwnEntry ==
    \A k \in DOMAIN connections :
        connections[k].state # "closed" =>
            /\ connections[k].id \in activeConnections
            /\ Handle(connections[k].id) = k
            /\ \A j \in DOMAIN connections :
                  (j # k /\ connections[j].state # "closed") =>
                      connections[j].id # connections[k].id

(* --------------------------- SpecFrames ------------------------------- *)
\* the replies of SpecFrames: none, one without tool calls, one with a tool
\* call
FrameReplies ==
    {[kind |-> "noText", toolCalls |-> <<>>],
     [kind |-> "ok", toolCalls |-> <<>>],
     [kind |-> "ok", toolCalls |-> <<"hang_up_call">>]}

\* a started session whose greeting timer has fired and awaits the greeting
\* audio, and whose two utterances "a" and "b" were flushed by their
\* quiet-window timers: two invocations of processConversation await their
\* AI replies at the same time
InitFrames ==
    /\ now = GREETING_DELAY_MS + 2 * QUIET_WINDOW_MS
    /\ connState = "open"
    /\ closeCalls = 0
    /\ activeConnections = {connectionId}
    /\ activeCalls = {"CA1"}
    /\ callSession = [callSid |-> "CA1", status |-> "CONNECTED", endTime |-> FALSE,
                      transcripts |->
                         <<[text |-> <<"a">>, timestamp |-> GREETING_DELAY_MS,
                            speaker |-> "user"],
                           [text |-> <<"b">>,
                            timestamp |-> GREETING_DELAY_MS + QUIET_WINDOW_MS,
                            speaker |-> "user"]>>,
                      aiResponses |-> 0]
    /\ streamSid = "MZ1"
    /\ connectionTimeout = NONE
    /\ deepgramConnection = 1
    /\ dgConns = <<NewDeepgram>>
    /\ conversationBuffer = <<"a", " ", "b", " ">>
    /\ lastSpeechTime = GREETING_DELAY_MS + QUIET_WINDOW_MS
    /\ debounceTimers = EmptyBag
    /\ greetings = <<[pc |-> "tts", due |-> GREETING_DELAY_MS]>>
    /\ orch = <<NewOrch(<<"a">>, "CA1", 1), NewOrch(<<"a", " ", "b">>, "CA1", 2)>>
    /\ outFrames = <<>>
    /\ histArrays = << <<>>, <<>> >>
    /\ conversationHistory = <<>>
    /\ starts = 1
    /\ fragments = 2
    /\ cleanups = 0
    /\ uncaught = FALSE
    /\ connections = <<>>
    /\ shutdowns = 0

\* SpecFrames: the greeting and two invocations of processConversation run
\* concurrently on one connection, each up to its last send
NextFrames ==
    \/ \E g \in DOMAIN greetings, r \in TtsResults : GreetingTtsReturns(g, r)
    \/ \E i \in DOMAIN orch, r \in FrameReplies : AiReturns(i, r)
    \/ \E i \in DOMAIN orch, r \in TtsResults : TtsReturns(i, r)
    \/ \E f \in AckEchoes : OnMessage(f, TRUE)
    \/ \E i \in DOMAIN orch, ok \in BOOLEAN : ToolReturns(i, ok)
    \/ \E i \in DOMAIN orch, ok \in BOOLEAN : FollowUpAiReturns(i, ok)
    \/ \E i \in DOMAIN orch, r \in TtsResults : FollowUpTtsReturns(i, r)
    \/ \E i \in DOMAIN orch, r \in TtsResults : FallbackTtsReturns(i, r)
    \/ OnClose

SpecFrames == InitFrames /\ [][NextFrames]_vars

\* C38: the frames of one send are never interleaved with those of another:
\* every mark frame on the connection comes directly after the media frames
\* of its own send, which carry the whole audio in order, and every step
\* that emits frames emits the frames of one send only, from its first media
\* frame on, in order.
SendsNeverInterleave ==
    /\ [](\A p \in DOMAIN outFrames :
             outFrames[p].event = "mark" =>
                \E b \in TtsBuffers :
                   LET n == CeilDiv(Len(b), CHUNK_SIZE)
                   IN  /\ p > n
                       /\ SubSeq(outFrames, p - n, p)
                             = SendFrames(b, outFrames[p].streamSid, outFrames[p].name))
    /\ [][outFrames' # outFrames =>
             \E b \in TtsBuffers :
                \E k \in 1..(CeilDiv(Len(b), CHUNK_SIZE) + 1) :
                   outFrames' = outFrames \o SubSeq(SendFrames(b, streamSid, now), 1, k)]_vars

\* C38 witness: the greeting was sent and both invocations sent their
\* replies, with their marks, while the other one was still running; both
\* now wait for their echoes.
ConcurrentSendsEmitted ==
    /\ greetings[1].pc = "done"
    /\ Len(orch) = 2
    /\ orch[1].pc = "mark_wait" /\ orch[1].sent
    /\ orch[2].pc = "mark_wait" /\ orch[2].sent
    /\ Len(outFrames) >= 3 * (CeilDiv(Len(GreetingBuffer), CHUNK_SIZE) + 1)

(* ------------------- a failing generateResponse ----------------------- *)
\* C39 as stated: a call of generateResponse that fails leaves the history
\* stored for its call identifier as it was before the call.
FailedCallLeavesHistory ==
    [][\A c \in CallSids :
          GenerateResponse(c, FALSE) =>
              /\ DOMAIN conversationHistory' = DOMAIN conversationHistory
              /\ c \in DOMAIN conversationHistory =>
                    histArrays'[conversationHistory'[c]]
                        = histArrays[conversationHistory[c]]]_vars

====
